---------------------------- MODULE Spec2Model ----------------------------
(***************************************************************************)
(* FitFinder catalog ingestion: the submission handler (sqs_messenger),    *)
(* the scraper handler (web_scrapper/lambda_function.py) with its catalog  *)
(* walk, per-entry ingestion and task status updates, the detail scraper   *)
(* (asos_item_scraper.item_scrapper) and the relational store reached      *)
(* through datatier.                                                       *)
(*                                                                         *)
(* Python dicts are TLA+ records: a missing key is a missing field, and    *)
(* reading it raises.  Python lists and the 0-based page/item dicts are    *)
(* sequences, indexed from 1.                                              *)
(***************************************************************************)
EXTENDS Integers, Sequences, FiniteSets, Bags, TLC

VARIABLES
    catalog,      \* the site: url -> the listing pages it serves (environment)
    product,      \* the site: detail link -> embedded product configuration
    submissions,  \* urls the clients will submit, in order (environment)
    tasks,        \* table scraping_tasks: taskid -> row
    queue,        \* the SQS queue: taskid -> state of that task's message
    deliveries,   \* taskid -> number of times its message was delivered
    items,        \* table items: itemid -> row
    sizes,        \* table sizes: bag of rows
    colors,       \* table colors: bag of rows
    run,          \* taskid -> locals of the scraper invocation handling it
    progressLog,  \* taskid -> task_progress values written by the current run
    polls,        \* the last request to the polling handler and its response
    client        \* main.py: locals of the web_service_get/post call under way

vars == <<catalog, product, submissions, tasks, queue, deliveries,
          items, sizes, colors, run, progressLog, polls, client>>

env == <<catalog, product, submissions>>

store == <<items, sizes, colors>>

-----------------------------------------------------------------------------
(* Bounds of the model and constants of the program *)

\* listing pages a catalog has before the site serves page 1 again
MaxPages == 2

\* entries on one listing page
MaxPerPage == 2

\* distinct product titles on the site
NumTitles == 2

\* variants of one product
MaxVariants == 4

\* products of the first facet of one product
MaxFacets == 2

\* deliveries of one queue message (the first and the redeliveries)
MaxDeliveries == 2

\* tasks submitted
MaxTasks == 2

\* entries of the long listing (10 + 10 + 5)
LongFull == 10
LongRest == 5

\* entries the capped listing has on page 1 beyond the cap
CapExtra == 2

\* main.py:141, the requests one call makes at most
MaxTries == 3

\* lambda_function.py:125, progress is written every 10 entries
ProgressEvery == 10

\* lambda_function.py:175, the cap on processed entries
MaxItems == 300

-----------------------------------------------------------------------------
(* Values *)

None == [none |-> TRUE]

Has(d, k) == k \in DOMAIN d

SizeValues == {"M", "L", "S"}

TitleText(i) == "title" \o ToString(i)

PriceText(i) == "$" \o ToString(i)

LinkText(i) == "/prd/" \o ToString(i)

\* a link with no scheme: requests.get raises for it
NoLink == ""

RECURSIVE SeqsUpTo(_, _)
SeqsUpTo(S, n) ==
    IF n = 0 THEN {<<>>}
    ELSE LET shorter == SeqsUpTo(S, n - 1)
         IN  shorter \cup {Append(s, x) : s \in {t \in shorter : Len(t) = n - 1}, x \in S}

RECURSIVE SeqSum(_)
SeqSum(s) == IF s = <<>> THEN 0 ELSE Head(s) + SeqSum(Tail(s))

Range(s) == {s[i] : i \in DOMAIN s}

-----------------------------------------------------------------------------
(* asos_item_scraper.item_scrapper *)

Raised == [raised |-> TRUE]

\* The loop over product_info['variants'].  The local list sizes is tested
\* for membership and never appended to.
RECURSIVE SizesLoop(_, _, _, _)
SizesLoop(variants, i, res_sizes, local_sizes) ==
    IF i > Len(variants) THEN [raised |-> FALSE, sizes |-> res_sizes]
    ELSE IF ~Has(variants[i], "size") THEN Raised
    ELSE SizesLoop(variants, i + 1,
                   IF variants[i].size \notin Range(local_sizes)
                   THEN Append(res_sizes, variants[i].size)
                   ELSE res_sizes,
                   local_sizes)

\* The loop of the primary path over the first facet's products.  It appends
\* to res['colors'] and res['photo_links'] as it goes; when a read raises,
\* what was appended so far stays in res.
RECURSIVE PrimaryLoop(_, _, _, _)
PrimaryLoop(products, i, res_colors, res_photo_links) ==
    IF i > Len(products)
    THEN [raised |-> FALSE, colors |-> res_colors, photo_links |-> res_photo_links]
    ELSE LET p == products[i] IN
         IF ~Has(p, "isInStock")
         THEN [raised |-> TRUE, colors |-> res_colors, photo_links |-> res_photo_links]
         ELSE IF ~p.isInStock
         THEN PrimaryLoop(products, i + 1, res_colors, res_photo_links)
         ELSE IF ~Has(p, "description")
         THEN [raised |-> TRUE, colors |-> res_colors, photo_links |-> res_photo_links]
         ELSE IF ~Has(p, "imageUrl")
         THEN [raised |-> TRUE, colors |-> Append(res_colors, p.description),
               photo_links |-> res_photo_links]
         ELSE PrimaryLoop(products, i + 1,
                          Append(res_colors, p.description),
                          Append(res_photo_links, "https://" \o p.imageUrl))

\* product_info['facetGroup']['facets'][0]['products'] can be read
HasPrimary(product_info) ==
    /\ Has(product_info, "facetGroup")
    /\ Has(product_info.facetGroup, "facets")
    /\ Len(product_info.facetGroup.facets) >= 1
    /\ Has(product_info.facetGroup.facets[1], "products")

PrimaryPath(product_info) ==
    IF HasPrimary(product_info)
    THEN PrimaryLoop(product_info.facetGroup.facets[1].products, 1, <<>>, <<>>)
    ELSE [raised |-> TRUE, colors |-> <<>>, photo_links |-> <<>>]

\* the except branch: one colour and one photo link are appended to res
FallbackPath(product_info, res_colors, res_photo_links) ==
    IF \/ Len(product_info.variants) = 0
       \/ ~Has(product_info.variants[1], "colour")
       \/ ~Has(product_info, "images")
    THEN Raised
    ELSE IF \/ Len(product_info.images) = 0
            \/ ~Has(product_info.images[1], "url")
    THEN Raised
    ELSE [raised |-> FALSE,
          colors |-> Append(res_colors, product_info.variants[1].colour),
          photo_links |-> Append(res_photo_links, product_info.images[1].url)]

ColorsAndPhotos(product_info) ==
    LET primary == PrimaryPath(product_info) IN
    IF primary.raised
    THEN FallbackPath(product_info, primary.colors, primary.photo_links)
    ELSE primary

\* response: what the detail page holds; without the embedded configuration
\* the search for it raises, and every raise ends in return None
item_scrapper(response) ==
    IF ~Has(response, "config") THEN None
    ELSE LET product_info == response.config IN
         IF ~Has(product_info, "gender") \/ ~Has(product_info, "variants") THEN None
         ELSE LET sz == SizesLoop(product_info.variants, 1, <<>>, <<>>) IN
              IF sz.raised THEN None
              ELSE LET cp == ColorsAndPhotos(product_info) IN
                   IF cp.raised THEN None
                   ELSE [sizes |-> sz.sizes,
                         colors |-> cp.colors,
                         photo_links |-> cp.photo_links,
                         gender |-> product_info.gender]

-----------------------------------------------------------------------------
(* The site's detail pages *)

Variant(sz, i) == [size |-> sz, colour |-> "colour" \o ToString(i)]

VariantsOf(szs) == [i \in 1..Len(szs) |-> Variant(szs[i], i)]

FacetKinds == {"inStock", "outOfStock", "noStockKey", "noImageUrl"}

FacetProduct(kind, i) ==
    LET d == "desc" \o ToString(i)
        u == "img" \o ToString(i)
    IN  CASE kind = "inStock"    -> [isInStock |-> TRUE, description |-> d, imageUrl |-> u]
          [] kind = "outOfStock" -> [isInStock |-> FALSE, description |-> d, imageUrl |-> u]
          [] kind = "noStockKey" -> [description |-> d, imageUrl |-> u]
          [] kind = "noImageUrl" -> [isInStock |-> TRUE, description |-> d]

FacetGroupOf(kinds) ==
    [facets |-> <<[products |-> [i \in 1..Len(kinds) |-> FacetProduct(kinds[i], i)]]>>]

OneImage == <<[url |-> "photo1"]>>

\* a product configuration with every key the scraper reads
FullProduct(szs, kinds) ==
    [gender |-> "Men", variants |-> VariantsOf(szs),
     facetGroup |-> FacetGroupOf(kinds), images |-> OneImage]

\* the same without the facet structure
PlainProduct(szs) ==
    [gender |-> "Men", variants |-> VariantsOf(szs), images |-> OneImage]

\* the product configurations the detail scraper is checked on
AllProducts ==
    LET szss   == SeqsUpTo(SizeValues, MaxVariants)
        kindss == SeqsUpTo(FacetKinds, MaxFacets)
    IN  {PlainProduct(szs) : szs \in szss}
        \cup {FullProduct(<<"M", "L">>, kinds) : kinds \in kindss}
        \cup {[variants |-> VariantsOf(<<"M">>), images |-> OneImage],
              [gender |-> "Men", images |-> OneImage],
              [gender |-> "Men", variants |-> VariantsOf(<<"M">>)],
              [gender |-> "Men", variants |-> VariantsOf(<<"M">>), images |-> <<>>],
              [gender |-> "Men", variants |-> <<>>,
               facetGroup |-> FacetGroupOf(<<"noStockKey">>), images |-> OneImage]}

\* the detail pages of the catalogs the pipeline is checked on
DefaultProducts ==
    [l \in {LinkText(i) : i \in 1..NumTitles} |->
        IF l = LinkText(1)
        THEN [config |-> FullProduct(<<"M", "L", "M">>, <<"inStock", "outOfStock", "inStock">>)]
        ELSE [config |-> PlainProduct(<<"S">>)]]

-----------------------------------------------------------------------------
(* The site's listing pages *)

\* a listing page whose entries have the titles numbered ts, each with its
\* price and its link
PageOf(ts) ==
    [titles |-> [i \in 1..Len(ts) |-> TitleText(ts[i])],
     prices |-> [i \in 1..Len(ts) |-> PriceText(ts[i])],
     links  |-> [i \in 1..Len(ts) |-> LinkText(ts[i])]]

ListingOf(tss) == [p \in 1..Len(tss) |-> PageOf(tss[p])]

\* past its last page the site serves page 1 again
PageContent(listing, p) == IF p <= Len(listing) THEN listing[p] ELSE listing[1]

AllListings ==
    {ListingOf(tss) :
        tss \in SeqsUpTo(SeqsUpTo(1..NumTitles, MaxPerPage), MaxPages) \ {<<>>}}

\* a page on which find_all matches nt titles, np prices and nl links
RaggedPage(nt, np, nl) ==
    [titles |-> [i \in 1..nt |-> TitleText(1 + ((i - 1) % NumTitles))],
     prices |-> [i \in 1..np |-> PriceText(1 + ((i - 1) % NumTitles))],
     links  |-> [i \in 1..nl |-> LinkText(1 + ((i - 1) % NumTitles))]]

\* listings of one page, the three lists of any lengths
RaggedListings ==
    {<<RaggedPage(nt, np, nl)>> :
        nt \in 0..MaxPerPage, np \in 0..(MaxPerPage + 1), nl \in 0..(MaxPerPage + 1)}

\* two catalogs that share a product
CatalogA == ListingOf(<<<<1, 2>>>>)
CatalogB == ListingOf(<<<<2>>, <<1>>>>)

\* the walk of a listing that never wraps is followed this far page by page
MaxWalk == MaxPages + 1

-----------------------------------------------------------------------------
(* datatier and the store *)

TaskIds == 1..Len(submissions)

\* the UPDATE without its WHERE clause
SetStatusEveryRow(taskid, status) ==
    [id \in DOMAIN tasks |-> [tasks[id] EXCEPT !.task_status = status]]

\* UPDATE scraping_tasks SET task_status = status WHERE taskid = taskid; no
\* row has the id 0
SetStatus(taskid, status) ==
    IF taskid \in DOMAIN tasks THEN [tasks EXCEPT ![taskid].task_status = status]
    ELSE tasks

SetProgress(taskid, progress) ==
    IF taskid \in DOMAIN tasks THEN [tasks EXCEPT ![taskid].task_progress = progress]
    ELSE tasks

\* the status written and the progress left for a second statement
CompletedRowStatusOnly(row, progress) == [row EXCEPT !.task_status = "completed"]

\* SET task_status = 'completed', task_progress = progress
CompletedRow(row, progress) ==
    [row EXCEPT !.task_status = "completed", !.task_progress = progress]

\* step 8, the one UPDATE of the row with the id taskid
SetCompleted(taskid, progress) ==
    IF taskid \in DOMAIN tasks
    THEN [tasks EXCEPT ![taskid] = CompletedRow(tasks[taskid], progress)]
    ELSE tasks

\* SELECT COUNT(*) FROM items WHERE item_name = name
CountItems(name) == Cardinality({id \in DOMAIN items : items[id].item_name = name})

\* the key on items.item_name: an insert of a name the table holds is refused
\* with "Duplicate entry"
DuplicateEntry(name) == CountItems(name) > 0

-----------------------------------------------------------------------------
(* web_scrapper/lambda_function.lambda_handler: locals and control *)

IdleRun ==
    [pc |-> "idle", dbConn |-> FALSE, taskid |-> 0, page |-> 0, pages |-> <<>>,
     count |-> 0,
     response |-> None, item |-> 0, item_num |-> 0, item_info |-> None,
     last_insert_id |-> 0, item_id |-> 0, i |-> 0, err |-> "none",
     marked |-> FALSE]

\* the count taken from 0, as the loop index would be
ProgressDueFromZero(item_num) == (item_num - 1) % ProgressEvery = 0

\* step 7.1, the test of the 1-indexed count
ProgressDue(item_num) == item_num % ProgressEvery = 0

\* f"{item_num}/{count}"
ProgressText(item_num, count) == ToString(item_num) \o "/" \o ToString(count)

\* the exception err is raised inside the try block
Raise(r, err) == [r EXCEPT !.pc = "error", !.err = err]

\* the test made against the page before, not against page 1
WrappedAgainstLastPage(r, titles) ==
    /\ r.page > 1
    /\ Len(titles) > 0
    /\ Len(r.pages) >= 1
    /\ Len(r.pages[Len(r.pages)]) > 0
    /\ titles[1] = r.pages[Len(r.pages)][1].title

\* the walk stopped by a page without titles too
WrappedOrEmpty(r, titles) ==
    \/ r.page > 1 /\ Len(titles) = 0
    \/ /\ r.page > 1
       /\ Len(titles) > 0
       /\ Len(r.pages) >= 1
       /\ Len(r.pages[1]) > 0
       /\ titles[1] = r.pages[1][1].title

\* step 6.1, the test for the repeated first title
Wrapped(r, titles) ==
    /\ r.page > 1
    /\ Len(titles) > 0
    /\ Len(r.pages) >= 1
    /\ Len(r.pages[1]) > 0
    /\ titles[1] = r.pages[1][1].title

\* the three lists zipped: as many entries as the shortest has elements
PageEntriesShortest(titles, prices, links) ==
    LET shortest == CHOOSE n \in {Len(titles), Len(prices), Len(links)} :
                        n <= Len(titles) /\ n <= Len(prices) /\ n <= Len(links)
    IN  [n \in 1..shortest |->
            [title |-> titles[n], price |-> prices[n], link |-> links[n]]]

\* step 6.2, the entries of one page
PageEntries(titles, prices, links) ==
    [n \in 1..Len(titles) |->
        [title |-> titles[n],
         price |-> IF n <= Len(prices) THEN prices[n] ELSE "",
         link  |-> IF n <= Len(links) THEN links[n] ELSE NoLink]]

\* the outer loop over range(1, len(pages)), which leaves the last page out
RECURSIVE FirstPageFromExclusive(_, _, _)
FirstPageFromExclusive(pages, p, item_num) ==
    IF p >= Len(pages) THEN 0
    ELSE IF Len(pages[p]) > 0 THEN p
    ELSE IF item_num > MaxItems THEN 0
    ELSE FirstPageFromExclusive(pages, p + 1, item_num)

\* the outer for loop reaches page p: the first page from p on that has an
\* entry, 0 when the loop ends; the outer cap test follows every page
RECURSIVE FirstPageFrom(_, _, _)
FirstPageFrom(pages, p, item_num) ==
    IF p > Len(pages) THEN 0
    ELSE IF Len(pages[p]) > 0 THEN p
    ELSE IF item_num > MaxItems THEN 0
    ELSE FirstPageFrom(pages, p + 1, item_num)

\* control after the body of the inner loop: continued is TRUE when the
\* body ended in `continue`, which skips the inner cap test
NextEntry(r, continued) ==
    LET at == IF ~continued /\ r.item_num > MaxItems THEN [page |-> 0, item |-> 0]
              ELSE IF r.item < Len(r.pages[r.page]) THEN [page |-> r.page, item |-> r.item + 1]
              ELSE IF r.item_num > MaxItems THEN [page |-> 0, item |-> 0]
              ELSE [page |-> FirstPageFrom(r.pages, r.page + 1, r.item_num), item |-> 1]
    IN  [r EXCEPT !.pc = IF at.page = 0 THEN "finish" ELSE "entry",
                  !.page = IF at.page = 0 THEN r.page ELSE at.page,
                  !.item = IF at.page = 0 THEN r.item ELSE at.item,
                  !.item_info = None, !.item_id = 0, !.i = 0]

\* the row count of the INSERT taken for the id
ItemIdFromRowCount(r) == 1

\* step 7.4, row[0] of SELECT LAST_INSERT_ID() on the run's own connection
ItemIdOf(r) == r.last_insert_id

\* control after the Item row is in and its id is read: the size loop, the
\* colour loop, then the cap test
AfterItemId(r) ==
    IF Len(r.item_info.sizes) > 0 THEN [r EXCEPT !.pc = "sizes", !.i = 1]
    ELSE IF Len(r.item_info.colors) > 0 THEN [r EXCEPT !.pc = "colors", !.i = 1]
    ELSE NextEntry(r, FALSE)

AfterSize(r) ==
    IF r.i < Len(r.item_info.sizes) THEN [r EXCEPT !.i = r.i + 1]
    ELSE IF Len(r.item_info.colors) > 0 THEN [r EXCEPT !.pc = "colors", !.i = 1]
    ELSE NextEntry(r, FALSE)

AfterColor(r) ==
    IF r.i < Len(r.item_info.colors) THEN [r EXCEPT !.i = r.i + 1]
    ELSE NextEntry(r, FALSE)

\* what the detail link serves
DetailPage(link) == IF link \in DOMAIN product THEN product[link] ELSE None

-----------------------------------------------------------------------------
(* sqs_messenger/lambda_function.lambda_handler *)

\* the row inserted as a running task
NewTaskRowRunning(url) ==
    [task_url |-> url, task_status |-> "in progress",
     task_progress |-> "not available yet"]

\* the values of the INSERT into scraping_tasks
NewTaskRow(url) ==
    [task_url |-> url, task_status |-> "queued", task_progress |-> "not available yet"]

\* the INSERT of the task row; LAST_INSERT_ID() is the new row's taskid
SubmitTask ==
    /\ Len(tasks) < Len(submissions)
    /\ LET taskid == Len(tasks) + 1 IN
       /\ tasks' = Append(tasks, NewTaskRow(submissions[taskid]))
       /\ queue' = [queue EXCEPT ![taskid] = "unsent"]
    /\ UNCHANGED <<env, polls, client, deliveries, store, run, progressLog>>

\* sqs.send_message: the message is queued, or the call raises and the
\* handler answers 500
SendMessage(t) ==
    /\ t \in TaskIds
    /\ queue[t] = "unsent"
    /\ \/ queue' = [queue EXCEPT ![t] = "visible"]
       \/ queue' = [queue EXCEPT ![t] = "lost"]
    /\ UNCHANGED <<env, polls, client, tasks, deliveries, store, run, progressLog>>

-----------------------------------------------------------------------------
(* web_scrapper/lambda_function.lambda_handler *)

\* steps 1 to 4: the event is read and the connection opened, or one of
\* them raises before dbConn is set, before or after taskid is read
Receive(t) ==
    /\ t \in TaskIds
    /\ queue[t] = "visible"
    /\ queue' = [queue EXCEPT ![t] = "inflight"]
    /\ deliveries' = [deliveries EXCEPT ![t] = @ + 1]
    /\ progressLog' = [progressLog EXCEPT ![t] = <<>>]
    /\ \/ run' = [run EXCEPT ![t] = [IdleRun EXCEPT !.pc = "connected", !.dbConn = TRUE,
                                                    !.taskid = t]]
       \/ run' = [run EXCEPT ![t] = Raise(IdleRun, "setup")]
       \/ run' = [run EXCEPT ![t] = Raise([IdleRun EXCEPT !.taskid = t], "setup")]
    /\ UNCHANGED <<env, polls, client, tasks, store>>

\* the same for a message whose body carries the task id 0: the run is
\* given the url and works on no row
ReceiveStray(t) ==
    /\ t \in TaskIds
    /\ queue[t] = "visible"
    /\ queue' = [queue EXCEPT ![t] = "inflight"]
    /\ deliveries' = [deliveries EXCEPT ![t] = @ + 1]
    /\ progressLog' = [progressLog EXCEPT ![t] = <<>>]
    /\ run' = [run EXCEPT ![t] = [IdleRun EXCEPT !.pc = "connected", !.dbConn = TRUE]]
    /\ UNCHANGED <<env, polls, client, tasks, store>>

\* step 5
SetInProgress(t) ==
    /\ t \in TaskIds
    /\ run[t].pc = "connected"
    /\ \/ /\ tasks' = SetStatus(run[t].taskid, "in progress")
          /\ run' = [run EXCEPT ![t] = [@ EXCEPT !.pc = "fetch", !.page = 1]]
       \/ /\ run' = [run EXCEPT ![t] = Raise(@, "store")]
          /\ UNCHANGED tasks
    /\ UNCHANGED <<env, polls, client, queue, deliveries, store, progressLog>>

\* the response parsed whatever its status
AfterFetchUnchecked(r, response) == [r EXCEPT !.pc = "parse", !.response = response]

\* step 6, the test of response.status_code
AfterFetch(r, response) ==
    IF response.status_code # 200
    THEN Raise([r EXCEPT !.response = response], "http")
    ELSE [r EXCEPT !.pc = "parse", !.response = response]

\* step 6, requests.get of the listing page: the site answers 200 with the
\* page, or with another status
FetchPage(t) ==
    /\ t \in TaskIds
    /\ run[t].pc = "fetch"
    /\ LET r == run[t]
           content == PageContent(catalog[tasks[t].task_url], r.page)
       IN  \E response \in {[status_code |-> 200] @@ content,
                            [status_code |-> 500, titles |-> <<>>, prices |-> <<>>,
                             links |-> <<>>]} :
              run' = [run EXCEPT ![t] = AfterFetch(r, response)]
    /\ UNCHANGED <<env, polls, client, tasks, queue, deliveries, store, progressLog>>

\* the total counting the pages
CountPages(count, titles) == count + 1

\* step 6.2, `count += 1` for each title of the page
CountAfterPage(count, titles) == count + Len(titles)

\* steps 6.1 and 6.2.  Past page MaxWalk the page number and the page map
\* stand for every later page: the walk is still going and reads neither.
StorePage(t) ==
    /\ t \in TaskIds
    /\ run[t].pc = "parse"
    /\ LET r == run[t]
           titles == r.response.titles
       IN  run' = [run EXCEPT ![t] =
             IF Wrapped(r, titles)
             THEN LET first == FirstPageFrom(r.pages, 1, 0) IN
                  [r EXCEPT !.pc = IF first = 0 THEN "finish" ELSE "entry",
                            !.page = first, !.item = 1, !.item_num = 0,
                            !.response = None]
             ELSE [r EXCEPT !.pc = "fetch",
                            !.pages = IF r.page <= MaxWalk
                                      THEN Append(r.pages,
                                                  PageEntries(titles, r.response.prices,
                                                              r.response.links))
                                      ELSE r.pages,
                            !.count = CountAfterPage(r.count, titles),
                            !.page = IF r.page <= MaxWalk THEN r.page + 1 ELSE r.page,
                            !.response = None]]
    /\ UNCHANGED <<env, polls, client, tasks, queue, deliveries, store, progressLog>>

\* step 7 up to step 7.1: the entry is counted and every 10th count written
BeginEntry(t) ==
    /\ t \in TaskIds
    /\ run[t].pc = "entry"
    /\ LET r == run[t]
           item_num == r.item_num + 1
       IN  IF ProgressDue(item_num)
           THEN \/ /\ tasks' = SetProgress(r.taskid, ProgressText(item_num, r.count))
                   /\ progressLog' = [progressLog EXCEPT ![t] = Append(@, <<item_num, r.count>>)]
                   /\ run' = [run EXCEPT ![t] = [r EXCEPT !.pc = "detail", !.item_num = item_num]]
                \/ /\ run' = [run EXCEPT ![t] = Raise([r EXCEPT !.item_num = item_num], "store")]
                   /\ UNCHANGED <<tasks, progressLog>>
           ELSE /\ run' = [run EXCEPT ![t] = [r EXCEPT !.pc = "detail", !.item_num = item_num]]
                /\ UNCHANGED <<tasks, progressLog>>
    /\ UNCHANGED <<env, polls, client, queue, deliveries, store>>

\* a missing detail result raised like a store error
AfterNoDetailFatal(r) == Raise(r, "detail")

\* `if item_info:` is false: the body is over, the inner cap test follows
AfterNoDetail(r) == NextEntry(r, FALSE)

\* item_scrapper of the entry's link, and step 7.2.  The fetch of the detail
\* page can fail whatever the page holds.
FetchDetail(t) ==
    /\ t \in TaskIds
    /\ run[t].pc = "detail"
    /\ LET r == run[t]
           entry == r.pages[r.page][r.item]
       IN  \E item_info \in {None, item_scrapper(DetailPage(entry.link))} :
             IF item_info = None
             THEN run' = [run EXCEPT ![t] = AfterNoDetail(r)]
             ELSE \/ run' = [run EXCEPT ![t] =
                               IF CountItems(entry.title) > 0
                               THEN NextEntry(r, TRUE)
                               ELSE [r EXCEPT !.pc = "insert", !.item_info = item_info]]
                  \/ run' = [run EXCEPT ![t] = Raise(r, "store")]
    /\ UNCHANGED <<env, polls, client, tasks, queue, deliveries, store, progressLog>>

\* the duplicate error raised like any other
AfterInsertDuplicateFatal(r, outcome) ==
    IF outcome = "inserted" THEN [r EXCEPT !.pc = "itemid"] ELSE Raise(r, outcome)

\* the duplicate error dropped and the entry carried on with
AfterInsertDuplicateIgnored(r, outcome) ==
    IF outcome \in {"inserted", "Duplicate entry"} THEN [r EXCEPT !.pc = "itemid"]
    ELSE Raise(r, outcome)

\* every error of the INSERT taken for a duplicate
AfterInsertErrorsSkipped(r, outcome) ==
    IF outcome = "inserted" THEN [r EXCEPT !.pc = "itemid"] ELSE NextEntry(r, TRUE)

\* what the handler does with the outcome of the INSERT of step 7.3: the row
\* is in, or perform_action raised the error named ("insert" stands for
\* any error whose text has no "Duplicate entry")
AfterInsert(r, outcome) ==
    CASE outcome = "inserted"  -> [r EXCEPT !.pc = "itemid"]
      [] outcome = "Duplicate entry" -> NextEntry(r, TRUE)
      [] OTHER                 -> Raise(r, outcome)

\* step 7.3
InsertItem(t) ==
    /\ t \in TaskIds
    /\ run[t].pc = "insert"
    /\ LET r == run[t]
           entry == r.pages[r.page][r.item]
       IN  \/ /\ DuplicateEntry(entry.title)
              /\ run' = [run EXCEPT ![t] = AfterInsert(r, "Duplicate entry")]
              /\ UNCHANGED items
           \/ /\ ~DuplicateEntry(entry.title)
              /\ items' = Append(items, [item_name |-> entry.title, price |-> entry.price,
                                         item_gender |-> r.item_info.gender])
              /\ run' = [run EXCEPT ![t] =
                            [AfterInsert(r, "inserted") EXCEPT
                                !.last_insert_id = Len(items) + 1]]
           \/ /\ run' = [run EXCEPT ![t] = AfterInsert(r, "insert")]
              /\ UNCHANGED items
    /\ UNCHANGED <<env, polls, client, tasks, queue, deliveries, sizes, colors, progressLog>>

\* step 7.4, the read of the new Item's id
GetItemId(t) ==
    /\ t \in TaskIds
    /\ run[t].pc = "itemid"
    /\ LET r == run[t] IN
       \/ run' = [run EXCEPT ![t] = AfterItemId([r EXCEPT !.item_id = ItemIdOf(r)])]
       \/ run' = [run EXCEPT ![t] = Raise(r, "store")]
    /\ UNCHANGED <<env, polls, client, tasks, queue, deliveries, store, progressLog>>

\* step 7.4, one INSERT into sizes
InsertSize(t) ==
    /\ t \in TaskIds
    /\ run[t].pc = "sizes"
    /\ LET r == run[t] IN
       \/ /\ sizes' = sizes (+) SetToBag({[itemid |-> r.item_id, size |-> r.item_info.sizes[r.i]]})
          /\ run' = [run EXCEPT ![t] = AfterSize(r)]
       \/ /\ run' = [run EXCEPT ![t] = Raise(r, "store")]
          /\ UNCHANGED sizes
    /\ UNCHANGED <<env, polls, client, tasks, queue, deliveries, items, colors, progressLog>>

\* step 7.4, one INSERT into colors; photo_links[i] raises past its end
InsertColor(t) ==
    /\ t \in TaskIds
    /\ run[t].pc = "colors"
    /\ LET r == run[t] IN
       IF r.i > Len(r.item_info.photo_links)
       THEN /\ run' = [run EXCEPT ![t] = Raise(r, "index")]
            /\ UNCHANGED colors
       ELSE \/ /\ colors' = colors (+) SetToBag({[itemid |-> r.item_id,
                                                  color |-> r.item_info.colors[r.i],
                                                  photo_url |-> r.item_info.photo_links[r.i]]})
               /\ run' = [run EXCEPT ![t] = AfterColor(r)]
            \/ /\ run' = [run EXCEPT ![t] = Raise(r, "store")]
               /\ UNCHANGED colors
    /\ UNCHANGED <<env, polls, client, tasks, queue, deliveries, items, sizes, progressLog>>

\* step 8: status and progress in one UPDATE, then the summary is returned
\* and the queue drops the message
Finish(t) ==
    /\ t \in TaskIds
    /\ run[t].pc = "finish"
    /\ LET r == run[t] IN
       \/ /\ tasks' = SetCompleted(r.taskid, ProgressText(r.item_num, r.count))
          /\ progressLog' = [progressLog EXCEPT ![t] = Append(@, <<r.item_num, r.count>>)]
          /\ run' = [run EXCEPT ![t] = [r EXCEPT !.pc = "returned"]]
          /\ queue' = [queue EXCEPT ![t] = "deleted"]
       \/ /\ run' = [run EXCEPT ![t] = Raise(r, "store")]
          /\ UNCHANGED <<tasks, progressLog, queue>>
    /\ UNCHANGED <<env, polls, client, deliveries, store>>

ErrorStatusUnchanged == "in progress"

ErrorStatusRequeued == "queued"

\* the status the except block writes
ErrorStatus == "failed"

\* the error of the status update left to propagate
AfterErrorUpdateEscalated(r, outcome) ==
    IF outcome = "update error"
    THEN [r EXCEPT !.pc = "raised", !.err = "update"]
    ELSE [r EXCEPT !.pc = "raised", !.marked = (outcome = "updated")]

\* the end of the except block: the update was made ("updated"), was not
\* attempted, or raised update_err, which is printed; then `raise err`
AfterErrorUpdate(r, outcome) ==
    [r EXCEPT !.pc = "raised", !.marked = (outcome = "updated")]

\* step 9: with a connection and a task id the status is updated, and an
\* error of that update is printed and dropped; then err is raised again
HandleError(t) ==
    /\ t \in TaskIds
    /\ run[t].pc = "error"
    /\ LET r == run[t] IN
       IF r.dbConn /\ r.taskid # 0
       THEN \/ /\ tasks' = SetStatus(r.taskid, ErrorStatus)
               /\ run' = [run EXCEPT ![t] = AfterErrorUpdate(r, "updated")]
            \/ /\ run' = [run EXCEPT ![t] = AfterErrorUpdate(r, "update error")]
               /\ UNCHANGED tasks
       ELSE /\ run' = [run EXCEPT ![t] = AfterErrorUpdate(r, "not attempted")]
            /\ UNCHANGED tasks
    /\ UNCHANGED <<env, polls, client, queue, deliveries, store, progressLog>>

\* the queue makes the message of a run that raised visible again
Redeliver(t) ==
    /\ t \in TaskIds
    /\ run[t].pc = "raised"
    /\ queue[t] = "inflight"
    /\ deliveries[t] < MaxDeliveries
    /\ queue' = [queue EXCEPT ![t] = "visible"]
    /\ UNCHANGED <<env, polls, client, tasks, deliveries, store, run, progressLog>>

\* the steps of the scraper invocation that handles task t
Handler(t) ==
    \/ SetInProgress(t) \/ FetchPage(t) \/ StorePage(t) \/ BeginEntry(t)
    \/ FetchDetail(t) \/ InsertItem(t) \/ GetItemId(t) \/ InsertSize(t)
    \/ InsertColor(t) \/ Finish(t) \/ HandleError(t)

Next ==
    \/ SubmitTask
    \/ \E t \in 1..MaxTasks :
         \/ SendMessage(t) \/ Receive(t) \/ Redeliver(t) \/ Handler(t)

-----------------------------------------------------------------------------
(* task_polling/lambda_function.lambda_handler *)

\* the rows of SELECT * FROM scraping_tasks WHERE taskid = task_id
SelectTask(task_id) ==
    IF task_id \in DOMAIN tasks
    THEN <<<<task_id, tasks[task_id].task_url, tasks[task_id].task_status,
             tasks[task_id].task_progress>>>>
    ELSE <<>>

\* datatier.retrieve_one_row: fetchone() is the first row, or None when
\* there is none, and `row if row else ()` makes that the empty tuple
retrieve_one_row(rows) == IF Len(rows) > 0 THEN rows[1] ELSE <<>>

\* the handler, from the event to the response; connects tells whether
\* get_dbConn returns a connection or raises
PollingHandler(event, connects) ==
    IF ~Has(event, "task_id")
    THEN [statusCode |-> 400, body |-> "Missing 'task_id' parameter"]
    ELSE IF ~connects
    THEN [statusCode |-> 500, body |-> "connection"]
    ELSE LET row == retrieve_one_row(SelectTask(event.task_id)) IN
         IF row = None
         THEN [statusCode |-> 404, body |-> "Task not found"]
         ELSE IF Len(row) < 4
         THEN [statusCode |-> 500, body |-> "tuple index out of range"]
         ELSE [statusCode |-> 200,
               body |-> [task_id |-> row[1], task_url |-> row[2],
                         task_status |-> row[3], task_progress |-> row[4]]]

NoPoll == [event |-> None, connects |-> FALSE, response |-> None]

\* requests with the id of a task that can exist, of one that cannot, and
\* without an id
PollEvents == {[task_id |-> id] : id \in 1..(MaxTasks + 1)} \cup {[path |-> "/task"]}

\* one invocation of the polling handler
Poll ==
    /\ \E event \in PollEvents, connects \in BOOLEAN :
          polls' = [event |-> event, connects |-> connects,
                    response |-> PollingHandler(event, connects)]
    /\ UNCHANGED <<env, client, tasks, queue, deliveries, store, run, progressLog>>

-----------------------------------------------------------------------------
(* main.py: web_service_get and web_service_post *)

\* the status codes returned at once
FinalStatuses == {200, 400, 480, 481, 482, 500}

\* the status codes the services are taken to answer with
ServiceStatuses == FinalStatuses \cup {401, 404, 503}

IdleClient ==
    [pc |-> "idle", method |-> "none", retries |-> 0, received |-> <<>>,
     result |-> None]

\* the test `retries <= 3`
AfterResponseOneMore(c, status_code) ==
    LET response == [status_code |-> status_code]
        got      == [c EXCEPT !.received = Append(c.received, response)]
    IN  IF status_code \in FinalStatuses
        THEN [got EXCEPT !.pc = "returned", !.result = response]
        ELSE IF c.retries + 1 <= MaxTries
        THEN [got EXCEPT !.retries = c.retries + 1]
        ELSE [got EXCEPT !.retries = c.retries + 1, !.pc = "returned",
                         !.result = response]

\* the body of the while loop from the test of the status code on
AfterResponse(c, status_code) ==
    LET response == [status_code |-> status_code]
        got      == [c EXCEPT !.received = Append(c.received, response)]
    IN  IF status_code \in FinalStatuses
        THEN [got EXCEPT !.pc = "returned", !.result = response]
        ELSE IF c.retries + 1 < MaxTries
        THEN [got EXCEPT !.retries = c.retries + 1]
        ELSE [got EXCEPT !.retries = c.retries + 1, !.pc = "returned",
                         !.result = response]

\* the call of web_service_get or web_service_post
CallService ==
    /\ client.pc \in {"idle", "returned"}
    /\ \E method \in {"get", "post"} :
          client' = [IdleClient EXCEPT !.pc = "request", !.method = method]
    /\ UNCHANGED <<env, polls, tasks, queue, deliveries, store, run, progressLog>>

\* one pass of the loop: requests.get or requests.post answers with a
\* status code, or raises and the function returns None
Request ==
    /\ client.pc = "request"
    /\ \/ \E status_code \in ServiceStatuses :
             client' = AfterResponse(client, status_code)
       \/ client' = [client EXCEPT !.pc = "returned", !.result = None]
    /\ UNCHANGED <<env, polls, tasks, queue, deliveries, store, run, progressLog>>

-----------------------------------------------------------------------------
(* Specifications *)

InitSystem ==
    /\ tasks = <<>>
    /\ queue = [t \in TaskIds |-> "none"]
    /\ deliveries = [t \in TaskIds |-> 0]
    /\ items = <<>>
    /\ sizes = EmptyBag
    /\ colors = EmptyBag
    /\ run = [t \in TaskIds |-> IdleRun]
    /\ progressLog = [t \in TaskIds |-> <<>>]
    /\ polls = NoPoll
    /\ client = IdleClient

\* a started invocation runs on
Fairness == \A t \in 1..MaxTasks : WF_vars(Handler(t))

\* two tasks over catalogs that overlap
Init ==
    /\ catalog = <<CatalogA, CatalogB>>
    /\ product = DefaultProducts
    /\ submissions = <<1, 2>>
    /\ InitSystem

Spec == Init /\ [][Next]_vars /\ Fairness

\* one task over any listing
InitWalk ==
    /\ catalog \in {<<l>> : l \in AllListings}
    /\ product = DefaultProducts
    /\ submissions = <<1>>
    /\ InitSystem

WalkSpec == InitWalk /\ [][Next]_vars /\ Fairness

\* one task over a listing of one entry, whose detail page is any product
InitScraper ==
    /\ catalog = <<ListingOf(<<<<1>>>>)>>
    /\ product \in {[l \in {LinkText(1)} |-> [config |-> p]] : p \in AllProducts}
                   \cup {[l \in {LinkText(1)} |-> [html |-> "no configuration"]]}
    /\ submissions = <<1>>
    /\ InitSystem

ScraperSpec == InitScraper /\ [][Next]_vars /\ Fairness

\* the same listing submitted twice, the invocations one after the other
InitSeq ==
    /\ catalog = <<CatalogA>>
    /\ product = DefaultProducts
    /\ submissions = <<1, 1>>
    /\ InitSystem

\* no invocation is running
Quiet == \A u \in TaskIds : run[u].pc \in {"idle", "returned", "raised"}

NextSeq ==
    \/ SubmitTask
    \/ \E t \in 1..MaxTasks :
         \/ SendMessage(t) \/ (Quiet /\ Receive(t)) \/ Redeliver(t) \/ Handler(t)

SeqSpec == InitSeq /\ [][NextSeq]_vars /\ Fairness

\* one task over a listing of 10 + 10 + 5 entries; the pages start with
\* different titles
LongListing ==
    ListingOf(<<[i \in 1..LongFull |-> 1 + (i % 2)],
                [i \in 1..LongFull |-> 1 + ((i + 1) % 2)],
                [i \in 1..LongRest |-> 1 + ((i + 1) % 2)]>>)

InitLong ==
    /\ catalog = <<LongListing>>
    /\ product = DefaultProducts
    /\ submissions = <<1>>
    /\ InitSystem

LongSpec == InitLong /\ [][Next]_vars /\ Fairness

\* detail pages item_scrapper gets nothing from: no embedded configuration,
\* a configuration without variants, a variant without size, no colour source
BrokenPages ==
    {[html |-> "no configuration"],
     [config |-> [gender |-> "Men", images |-> OneImage]],
     [config |-> [gender |-> "Men", variants |-> <<[colour |-> "colour1"]>>,
                  images |-> OneImage]],
     [config |-> [gender |-> "Men", variants |-> VariantsOf(<<"M">>), images |-> <<>>]]}

\* one task over a page of two entries; the detail page of the first is
\* broken, or its link leads nowhere
InitSkip ==
    /\ catalog = <<CatalogA>>
    /\ product \in {[l \in {LinkText(1), LinkText(2)} |->
                        IF l = LinkText(1) THEN b ELSE [config |-> PlainProduct(<<"S">>)]]
                     : b \in BrokenPages}
                   \cup {[l \in {LinkText(2)} |-> [config |-> PlainProduct(<<"S">>)]]}
    /\ submissions = <<1>>
    /\ InitSystem

SkipSpec == InitSkip /\ [][Next]_vars /\ Fairness

\* listings as long as the walk is followed page by page: each of pages
\* 1..MaxWalk is empty, starts with title 1 or starts with title 2, and the
\* page after them, which stands for every later page, is empty
EndlessListings ==
    {[p \in 1..(MaxWalk + 1) |->
         IF p = MaxWalk + 1 THEN PageOf(<<>>) ELSE PageOf(kinds[p])]
     : kinds \in [1..MaxWalk -> {<<>>, <<1, 2>>, <<2, 1>>}]}

InitEndless ==
    /\ catalog \in {<<l>> : l \in EndlessListings}
    /\ product = DefaultProducts
    /\ submissions = <<1>>
    /\ InitSystem

EndlessSpec == InitEndless /\ [][Next]_vars /\ Fairness

\* one task over a page of one entry; its message can carry the task id 0
InitStray ==
    /\ catalog = <<ListingOf(<<<<1>>>>)>>
    /\ product = DefaultProducts
    /\ submissions = <<1>>
    /\ InitSystem

NextStray == Next \/ \E t \in 1..MaxTasks : ReceiveStray(t)

StraySpec == InitStray /\ [][NextStray]_vars /\ Fairness

\* the client's calls alone
InitClient ==
    /\ catalog = <<>>
    /\ product = DefaultProducts
    /\ submissions = <<>>
    /\ InitSystem

NextClient == CallService \/ Request

\* a call under way makes its next request or returns
ClientSpec == InitClient /\ [][NextClient]_vars /\ WF_vars(Request)

\* one task over a page of one entry, and clients polling at any time
InitPoll ==
    /\ catalog = <<ListingOf(<<<<1>>>>)>>
    /\ product = DefaultProducts
    /\ submissions = <<1>>
    /\ InitSystem

NextPoll == Next \/ Poll

PollSpec == InitPoll /\ [][NextPoll]_vars /\ Fairness

\* the queue delivers every message it accepted, the submission handler
\* runs on, and clients keep polling
DeliverySpec ==
    /\ InitPoll /\ [][NextPoll]_vars /\ Fairness
    /\ WF_vars(SubmitTask) /\ WF_vars(Poll)
    /\ \A t \in 1..MaxTasks : WF_vars(SendMessage(t)) /\ WF_vars(Receive(t))

\* one task over a page whose titles, prices and links differ in number
InitRagged ==
    /\ catalog \in {<<l>> : l \in RaggedListings}
    /\ product = DefaultProducts
    /\ submissions = <<1>>
    /\ InitSystem

RaggedSpec == InitRagged /\ [][Next]_vars /\ Fairness

\* one task over a listing with more entries than the cap: a first page of
\* MaxItems + CapExtra entries and a second page of one
CappedListing ==
    ListingOf(<<[i \in 1..(MaxItems + CapExtra) |-> 1 + ((i + 1) % 2)], <<2>>>>)

InitCap ==
    /\ catalog = <<CappedListing>>
    /\ product = DefaultProducts
    /\ submissions = <<1>>
    /\ InitSystem

CapSpec == InitCap /\ [][Next]_vars /\ Fairness

-----------------------------------------------------------------------------
(* Task status *)

Status(t) == tasks[t].task_status

\* the invocation for task t is over
Returned(t) == run[t].pc = "returned"
RaisedError(t) == run[t].pc = "raised"

\* the invocation for task t got past step 5
SetRunning(t) == run[t].page >= 1

\* C1 as stated: after an invocation that had set the status to 'in progress'
\* returns or raises, the status is 'completed' or 'failed', whichever
\* operation failed, the update to 'failed' included.
C1_TerminalStatusAlways ==
    \A t \in TaskIds :
        (Returned(t) \/ RaisedError(t)) /\ SetRunning(t)
            => Status(t) \in {"completed", "failed"}

\* C1 amended: after an invocation returns the status is 'completed'; after
\* it raises the status is 'failed' when the except block's update was made,
\* and is left as it was ('queued' or 'in progress', or 'failed' from an
\* earlier delivery) when that update failed or there was no connection.
C1_TerminalStatus ==
    \A t \in TaskIds :
        /\ Returned(t) => Status(t) = "completed"
        /\ RaisedError(t) /\ run[t].marked => Status(t) = "failed"
        /\ RaisedError(t) /\ ~run[t].marked =>
              /\ Status(t) \in {"queued", "in progress", "failed"}
              /\ SetRunning(t) /\ deliveries[t] = 1 => Status(t) = "in progress"
              /\ ~SetRunning(t) /\ deliveries[t] = 1 => Status(t) = "queued"

\* a run whose page fetch failed and whose update to 'failed' failed too
C1_Witness ==
    \E t \in DOMAIN tasks :
        /\ RaisedError(t) /\ run[t].err = "http" /\ ~run[t].marked
        /\ Status(t) = "in progress"

-----------------------------------------------------------------------------
(* The catalog walk *)

Listing(t) == catalog[tasks[t].task_url]

\* page p of the listing starts with the first title of page 1
RepeatsFirstPage(listing, p) ==
    /\ Len(listing[1].titles) > 0
    /\ Len(PageContent(listing, p).titles) > 0
    /\ PageContent(listing, p).titles[1] = listing[1].titles[1]

\* the listing has a first page after page 1 that repeats it
HasWrapPage(listing) == Len(listing[1].titles) > 0

\* that page, k + 1
WrapPage(listing) ==
    CHOOSE p \in 2..(Len(listing) + 1) :
        /\ RepeatsFirstPage(listing, p)
        /\ \A q \in 2..(p - 1) : ~RepeatsFirstPage(listing, q)

\* the entries the listing shows on page p
ListedEntries(listing, p) ==
    [n \in 1..Len(listing[p].titles) |->
        [title |-> listing[p].titles[n], price |-> listing[p].prices[n],
         link |-> listing[p].links[n]]]

\* the walk is over and the entries are being processed
Processing(t) ==
    run[t].pc \in {"entry", "detail", "insert", "itemid", "sizes", "colors",
                   "finish", "returned"}

\* C3: when page k+1 is the first page after page 1 that starts with page 1's
\* first title, the page map never holds more than pages 1..k, holds exactly
\* these with their entries once the walk is over, the total counts only
\* their entries, and only their entries are processed.
C3_WrapDetection ==
    \A t \in DOMAIN tasks :
        LET r == run[t]
            listing == Listing(t)
            k == WrapPage(listing) - 1
        IN  HasWrapPage(listing) =>
              /\ Len(r.pages) <= k
              /\ \A p \in 1..Len(r.pages) : r.pages[p] = ListedEntries(listing, p)
              /\ r.count = SeqSum([p \in 1..Len(r.pages) |-> Len(listing[p].titles)])
              /\ Processing(t) =>
                    /\ Len(r.pages) = k
                    /\ r.page \in 1..k
                    /\ r.item_num <= r.count

\* a walk that stopped at page 2 of a listing of two pages, page 2 starting
\* like page 1
C3_Witness ==
    \E t \in DOMAIN tasks :
        /\ Len(Listing(t)) = 2
        /\ HasWrapPage(Listing(t))
        /\ WrapPage(Listing(t)) = 2
        /\ Len(Listing(t)[2].titles) = 2
        /\ Returned(t)
        /\ Len(run[t].pages) = 1

\* the walk has stored an empty page 1 and goes on
EmptyFirstPage(t) ==
    /\ t \in DOMAIN tasks
    /\ run[t].pc \in {"fetch", "parse"}
    /\ Len(run[t].pages) >= 1
    /\ Len(run[t].pages[1]) = 0

\* C5: a walk whose page 1 has no entry ends, in a run that raises, also
\* when every later page is served with status 200.
C5_EmptyFirstPageFatal ==
    \A t \in 1..MaxTasks :
        EmptyFirstPage(t) ~> (t \in DOMAIN tasks /\ RaisedError(t))

-----------------------------------------------------------------------------
(* Ingestion *)

\* the entry the invocation for task t is at
Entry(t) == run[t].pages[run[t].page][run[t].item]

\* the invocation for task t is inside the body of the loop over entries
AtEntry(t) == run[t].pc \in {"detail", "insert", "itemid", "sizes", "colors"}

UniqueNames ==
    \A id1, id2 \in DOMAIN items :
        items[id1].item_name = items[id2].item_name => id1 = id2

\* the names on the pages a walk of the listing keeps
KeptNames(listing) ==
    UNION {Range(listing[p].titles) : p \in 1..(WrapPage(listing) - 1)}

AllReturned == \A t \in TaskIds : t \in DOMAIN tasks /\ Returned(t)

\* C4 as stated: after two runs in sequence over the same listing the store
\* holds exactly one Item row per name of the listing, and the run that comes
\* after a completed run inserts no row.
C4_SecondRunInsertsNothing ==
    /\ [](AllReturned =>
            \A name \in KeptNames(catalog[1]) : CountItems(name) = 1)
    /\ [][\A t \in TaskIds :
            (\E u \in TaskIds \ {t} : Returned(u)) /\ run'[t] # run[t]
                => UNCHANGED store]_vars

\* C4 amended: the store holds at most one Item row per name; a run inserts
\* an Item only for a name that has no row, and Size and Color rows only
\* under the Item it has just inserted for the entry it is at.  A later run
\* so inserts nothing for the names an earlier run ingested; it does insert
\* the entries for which the earlier run got no detail.
C4_Idempotent ==
    /\ []UniqueNames
    /\ [][\A t \in TaskIds :
            run'[t] # run[t] /\ store' # store =>
                LET r == run[t] IN
                IF r.pc = "insert"
                THEN /\ CountItems(Entry(t).title) = 0
                     /\ Len(items') = Len(items) + 1
                     /\ items'[Len(items')].item_name = Entry(t).title
                     /\ UNCHANGED <<sizes, colors>>
                ELSE /\ r.pc \in {"sizes", "colors"}
                     /\ UNCHANGED items
                     /\ r.item_id \in DOMAIN items
                     /\ items[r.item_id].item_name = Entry(t).title]_vars

\* two runs, one after the other, have completed and both names are in
C4_Witness ==
    /\ AllReturned
    /\ \A t \in TaskIds : deliveries[t] = 1
    /\ \A name \in KeptNames(catalog[1]) : CountItems(name) = 1

\* C9: whatever the interleaving of two runs, no two Item rows have the same
\* name, and the run whose INSERT is refused as a duplicate goes on with its
\* next entry: the duplicate error is never the error of a run, and the step
\* changes no table (it ends in an error only when the store fails otherwise).
C9_RaceIsSkip ==
    /\ []UniqueNames
    /\ [](\A t \in TaskIds : run[t].err # "Duplicate entry")
    /\ [][\A t \in TaskIds :
            /\ run[t].pc = "insert"
            /\ run'[t] # run[t]
            /\ DuplicateEntry(Entry(t).title)
            => \/ run'[t].pc = "error" /\ run'[t].err = "insert"
               \/ /\ run'[t].pc \in {"entry", "finish"}
                  /\ run'[t].item_num = run[t].item_num
                  /\ UNCHANGED <<store, tasks>>]_vars

\* a run about to insert a name that another run has inserted since the
\* check of step 7.2
C9_Witness ==
    \E t \in DOMAIN tasks :
        run[t].pc = "insert" /\ DuplicateEntry(Entry(t).title)

\* a listing page was answered with a status other than 200
BadStatus(t) ==
    /\ run[t].response # None
    /\ run[t].response.status_code # 200

\* C10 as stated: after a non-200 answer no entry is processed, no row is
\* written, the status is 'failed' and the error is raised.
C10_BadStatusMarksFailed ==
    \A t \in DOMAIN tasks :
        BadStatus(t) =>
            /\ run[t].pc \in {"error", "raised"} /\ run[t].err = "http"
            /\ run[t].item_num = 0 /\ run[t].last_insert_id = 0
            /\ RaisedError(t) => Status(t) = "failed"

\* C10 amended: after a non-200 answer no entry is processed, no row is
\* written by the run, the error is raised, and the status is 'failed'
\* unless the update to 'failed' itself fails.
C10_BadStatusFatal ==
    \A t \in DOMAIN tasks :
        BadStatus(t) =>
            /\ run[t].pc \in {"error", "raised"} /\ run[t].err = "http"
            /\ run[t].item_num = 0 /\ run[t].last_insert_id = 0
            /\ RaisedError(t) /\ run[t].marked => Status(t) = "failed"

\* a run that raised after a non-200 answer to page 2, the task marked failed
C10_Witness ==
    \E t \in DOMAIN tasks :
        /\ BadStatus(t) /\ RaisedError(t) /\ run[t].marked
        /\ run[t].page = 2 /\ Status(t) = "failed"

-----------------------------------------------------------------------------
(* The detail scraper *)

\* the product configuration behind the entry the invocation is at
ProductInfo(t) == DetailPage(Entry(t).link).config

\* the invocation holds a detail result for its entry
HasDetail(t) == t \in DOMAIN tasks /\ AtEntry(t) /\ run[t].item_info # None

\* s without the later occurrences of its elements
RECURSIVE FirstOccurrences(_)
FirstOccurrences(s) ==
    IF s = <<>> THEN <<>>
    ELSE LET front == FirstOccurrences(SubSeq(s, 1, Len(s) - 1))
             last  == s[Len(s)]
         IN  IF last \in Range(front) THEN front ELSE Append(front, last)

VariantSizes(product_info) ==
    [i \in 1..Len(product_info.variants) |-> product_info.variants[i].size]

\* C6: the sizes item_scrapper returns are the variants' sizes without the
\* repeated ones, in the order of their first occurrence.
C6_SizeDedup ==
    \A t \in 1..MaxTasks :
        HasDetail(t) =>
            run[t].item_info.sizes = FirstOccurrences(VariantSizes(ProductInfo(t)))

\* C8: when reading the primary structure raises, at the first access or
\* part-way through, the colors and photo_links returned hold one element
\* each, the first variant's colour and the first image's url.
C8_FallbackExclusive ==
    \A t \in 1..MaxTasks :
        HasDetail(t) /\ PrimaryPath(ProductInfo(t)).raised =>
            /\ run[t].item_info.colors = <<ProductInfo(t).variants[1].colour>>
            /\ run[t].item_info.photo_links = <<ProductInfo(t).images[1].url>>

-----------------------------------------------------------------------------
(* Progress *)

\* the entries on the pages a walk of the listing keeps
KeptEntries(listing) ==
    SeqSum([p \in 1..(WrapPage(listing) - 1) |-> Len(listing[p].titles)])

\* the invocation for task t is past the walk and has not failed
Ingesting(t) == t \in DOMAIN tasks /\ Processing(t)

\* C7: in a run over n entries progress is written when the count of
\* processed entries is a multiple of 10 and only then (the k-th write is
\* made at entry 10k, and after entry m there are m \div 10 of them), the
\* final write follows them with a count that is no smaller, and every write
\* carries the total n.
C7_Progress ==
    \A t \in 1..MaxTasks :
        Ingesting(t) =>
            LET r   == run[t]
                log == progressLog[t]
                n   == KeptEntries(Listing(t))
                mid == IF Returned(t) THEN Len(log) - 1 ELSE Len(log)
            IN  /\ mid = r.item_num \div ProgressEvery
                /\ \A k \in 1..mid : log[k] = <<k * ProgressEvery, n>>
                /\ Returned(t) =>
                      /\ log[Len(log)] = <<r.item_num, n>>
                      /\ mid > 0 => log[mid][1] <= log[Len(log)][1]
                      /\ tasks[t].task_progress = ProgressText(r.item_num, n)
                /\ ~Returned(t) /\ mid > 0 =>
                      tasks[t].task_progress = ProgressText(mid * ProgressEvery, n)

\* a completed run over more than 20 entries: two writes and the final one
C7_Witness ==
    \E t \in DOMAIN tasks :
        /\ Returned(t)
        /\ run[t].item_num > 2 * ProgressEvery
        /\ Len(progressLog[t]) = 3
        /\ progressLog[t][1][1] = ProgressEvery
        /\ progressLog[t][2][1] = 2 * ProgressEvery

-----------------------------------------------------------------------------
(* Entries without a detail result *)

\* item_scrapper gets nothing for the entry the invocation is at
NoDetail(t) == item_scrapper(DetailPage(Entry(t).link)) = None

\* C11: when item_scrapper returns None for an entry, the entry stays counted
\* (the count of processed entries is its position), no row is written and
\* no error raised, the run goes on with the next entry or to its end, and
\* a run whose first entry was so skipped completes with both entries
\* counted and only the other name in the store.
C11_NoDetailSkips ==
    /\ [][\A t \in DOMAIN tasks :
            run[t].pc = "detail" /\ NoDetail(t) /\ run'[t] # run[t] =>
                /\ run'[t].pc = (IF run[t].item < Len(run[t].pages[run[t].page])
                                 THEN "entry" ELSE "finish")
                /\ run'[t].item = (IF run'[t].pc = "entry" THEN run[t].item + 1
                                   ELSE run[t].item)
                /\ run'[t].item_num = run[t].item_num
                /\ run[t].item_num = run[t].item
                /\ run'[t].err = "none"
                /\ UNCHANGED <<store, tasks>>]_vars
    /\ [](\A t \in DOMAIN tasks :
            Returned(t) =>
                /\ Status(t) = "completed"
                /\ run[t].item_num = 2
                /\ tasks[t].task_progress = ProgressText(2, 2)
                /\ CountItems(TitleText(1)) = 0)

\* a run that skipped its first entry, ingested the second and completed
C11_Witness ==
    \E t \in DOMAIN tasks :
        /\ Returned(t) /\ Status(t) = "completed"
        /\ deliveries[t] = 1
        /\ CountItems(TitleText(1)) = 0
        /\ CountItems(TitleText(2)) = 1

-----------------------------------------------------------------------------
(* The cap on processed entries *)

\* C12: in a run over a listing of more than 300 entries the count of
\* processed entries, and so the count the run reports, never exceeds 300.
C12_CapAt300 ==
    \A t \in DOMAIN tasks : run[t].item_num <= MaxItems

-----------------------------------------------------------------------------
(* The detail result and the rows written from it *)

\* C13: in every result item_scrapper returns, colors and photo_links have
\* the same length, and the pairing colors[i], photo_links[i] of the pipeline
\* never reads past the end of photo_links.
C13_Aligned ==
    \A t \in 1..MaxTasks :
        /\ HasDetail(t) =>
              Len(run[t].item_info.colors) = Len(run[t].item_info.photo_links)
        /\ t \in DOMAIN tasks => run[t].err # "index"

\* the detail page of the entry holds a configuration that lacks only gender
LacksOnlyGender(t) ==
    LET response == DetailPage(Entry(t).link) IN
    /\ Has(response, "config")
    /\ ~Has(response.config, "gender")
    /\ item_scrapper([config |-> response.config @@ [gender |-> "Men"]]) # None

\* C16: for a product configuration without the gender field item_scrapper
\* returns a result whose gender is the empty string.
C16_GenderDefault ==
    \A t \in DOMAIN tasks :
        run[t].pc = "detail" /\ LacksOnlyGender(t) =>
            LET res == item_scrapper(DetailPage(Entry(t).link)) IN
            /\ res # None
            /\ res.gender = ""

\* the rows of a table (a bag) under Item id
RowsUnder(table, id) ==
    [row \in {x \in DOMAIN table : x.itemid = id} |-> table[row]]

\* one row per element of the sequence rows
RowsOf(rows) ==
    [row \in Range(rows) |-> Cardinality({i \in DOMAIN rows : rows[i] = row})]

SizeRows(id, res) ==
    RowsOf([i \in 1..Len(res.sizes) |-> [itemid |-> id, size |-> res.sizes[i]]])

\* needs colors and photo_links of the same length
ColorRows(id, res) ==
    RowsOf([i \in 1..Len(res.colors) |->
              [itemid |-> id, color |-> res.colors[i], photo_url |-> res.photo_links[i]]])

\* C19: when the body of the loop ends for an entry whose Item was inserted,
\* normally or in an error that is not a store error, the store holds under
\* the Item's id one Size row per element of sizes and one Color row per
\* index of colors; and Size and Color rows are written only by a run that
\* has inserted the Item of its entry, under that Item's id.
C19_RowsPerDetail ==
    [][\A t \in DOMAIN tasks :
          LET r == run[t] IN
          /\ /\ r.pc \in {"itemid", "sizes", "colors"}
             /\ \/ run'[t].pc \in {"entry", "finish"}
                \/ run'[t].pc = "error" /\ run'[t].err # "store"
             => /\ Len(r.item_info.colors) = Len(r.item_info.photo_links)
                /\ items[r.last_insert_id].item_name = Entry(t).title
                /\ RowsUnder(sizes', r.last_insert_id) = SizeRows(r.last_insert_id, r.item_info)
                /\ RowsUnder(colors', r.last_insert_id) = ColorRows(r.last_insert_id, r.item_info)
          /\ run'[t] # r /\ <<sizes, colors>>' # <<sizes, colors>>
             => /\ r.pc \in {"sizes", "colors"}
                /\ r.item_id \in DOMAIN items
                /\ items[r.item_id].item_name = Entry(t).title]_vars

-----------------------------------------------------------------------------
(* Fatal errors *)

\* the INSERT of the entry's Item failed with an error other than the
\* duplicate one
InsertFailed(t) == run[t].err = "insert"

\* C14 as stated: after an Item insert error that is not a uniqueness
\* violation the run is aborted, the error raised and the status 'failed'.
C14_InsertErrorMarksFailed ==
    \A t \in DOMAIN tasks :
        InsertFailed(t) =>
            /\ run[t].pc \in {"error", "raised"}
            /\ RaisedError(t) => Status(t) = "failed"

\* C14 amended: an Item insert that fails with another error than the
\* duplicate one writes no row and puts the run in its except block: no
\* later entry is processed, the error is raised, and the status is 'failed'
\* unless the update to 'failed' itself fails.
C14_InsertErrorFatal ==
    /\ [](\A t \in DOMAIN tasks :
            InsertFailed(t) =>
                /\ run[t].pc \in {"error", "raised"}
                /\ RaisedError(t) /\ run[t].marked => Status(t) = "failed")
    /\ [][\A t \in DOMAIN tasks :
            /\ /\ run[t].pc = "insert" /\ run'[t] # run[t]
               /\ ~DuplicateEntry(Entry(t).title) /\ UNCHANGED items
               => run'[t].pc = "error" /\ InsertFailed(t)'
            /\ InsertFailed(t) /\ run'[t] # run[t]
               => \/ /\ run[t].pc = "error" /\ RaisedError(t)' /\ InsertFailed(t)'
                     /\ run'[t].item_num = run[t].item_num
                     /\ UNCHANGED store
                  \/ RaisedError(t) /\ run'[t].item_num = 0]_vars

\* a run that raised the error of its second entry's INSERT, the task marked
C14_Witness ==
    \E t \in DOMAIN tasks :
        /\ InsertFailed(t) /\ RaisedError(t) /\ run[t].marked
        /\ run[t].item_num = 2 /\ Status(t) = "failed"

\* the errors the try block raises
TryErrors == {"setup", "store", "http", "insert", "index"}

\* C15: the error a run raises to its caller is the error that took it to
\* the except block, also when the update of the status to 'failed' fails:
\* the except block changes neither the error nor any table but
\* scraping_tasks, and the error of the update is never the one raised.
C15_OriginalErrorRaised ==
    /\ [](\A t \in DOMAIN tasks :
            run[t].pc \in {"error", "raised"} => run[t].err \in TryErrors)
    /\ [][\A t \in DOMAIN tasks :
            run[t].pc = "error" /\ run'[t] # run[t] =>
                /\ RaisedError(t)'
                /\ run'[t].err = run[t].err
                /\ UNCHANGED store
                /\ tasks'[t].task_status \in {Status(t), "failed"}]_vars

\* a run with a connection raised a store error and the status was not
\* updated: the update to 'failed' had failed
C15_Witness ==
    \E t \in DOMAIN tasks :
        /\ RaisedError(t) /\ run[t].dbConn /\ ~run[t].marked
        /\ run[t].err = "store" /\ run[t].item_num >= 1
        /\ Status(t) = "in progress"

-----------------------------------------------------------------------------
(* The entries of a page *)

\* element n of list, the empty string past its end
ElementOr(list, n) == IF n <= Len(list) THEN list[n] ELSE ""

\* C17: every stored page has one entry per title of the page; entry n has
\* title n, and price n and link n when the page has them, the empty string
\* otherwise; the total counts the titles; and storing a page raises no
\* error whatever the lengths of the three lists.
C17_RaggedPages ==
    /\ [](\A t \in DOMAIN tasks :
            LET r == run[t] IN
            /\ \A p \in 1..Len(r.pages) :
                  LET listed == PageContent(Listing(t), p) IN
                  /\ Len(r.pages[p]) = Len(listed.titles)
                  /\ \A n \in 1..Len(r.pages[p]) :
                        r.pages[p][n] = [title |-> listed.titles[n],
                                         price |-> ElementOr(listed.prices, n),
                                         link  |-> ElementOr(listed.links, n)]
            /\ Len(Listing(t)[1].titles) > 0 =>
                  r.count = SeqSum([p \in 1..Len(r.pages) |-> Len(r.pages[p])]))
    /\ [][\A t \in DOMAIN tasks :
            run[t].pc = "parse" /\ run'[t] # run[t] =>
                run'[t].pc \in {"fetch", "entry", "finish"} /\ run'[t].err = "none"]_vars

\* a completed run over a page of two titles, one price and no link
C17_Witness ==
    \E t \in DOMAIN tasks :
        /\ Returned(t)
        /\ Len(Listing(t)[1].prices) = 1 /\ Len(Listing(t)[1].links) = 0
        /\ Len(run[t].pages) = 1 /\ Len(run[t].pages[1]) = 2
        /\ run[t].pages[1][1].price = PriceText(1)
        /\ run[t].pages[1][2].price = ""
        /\ run[t].pages[1][2].link = ""

-----------------------------------------------------------------------------
(* The order of processing *)

\* the entries of pages 1..k of the listing, page after page
RECURSIVE ConcatPages(_, _)
ConcatPages(listing, k) ==
    IF k = 0 THEN <<>>
    ELSE ConcatPages(listing, k - 1) \o ListedEntries(listing, k)

\* C18: the i-th entry a run processes is the i-th entry of pages 1..N-1 of
\* the listing taken page after page, each page in its own order: the entry
\* the run is at has the position given by the count of processed entries,
\* the count grows by one from entry to entry, and a run that reaches its
\* end has processed them all.
C18_ListingOrder ==
    /\ [](\A t \in DOMAIN tasks :
            HasWrapPage(Listing(t)) /\ Processing(t) =>
                LET r == run[t]
                    entries == ConcatPages(Listing(t), WrapPage(Listing(t)) - 1)
                IN  /\ r.pc = "entry" =>
                          /\ r.item_num < Len(entries)
                          /\ Entry(t) = entries[r.item_num + 1]
                    /\ AtEntry(t) =>
                          /\ r.item_num \in 1..Len(entries)
                          /\ Entry(t) = entries[r.item_num]
                    /\ r.pc \in {"finish", "returned"} => r.item_num = Len(entries))
    /\ [][\A t \in DOMAIN tasks :
            Processing(t) /\ Processing(t)' /\ run'[t] # run[t] =>
                run'[t].item_num =
                    (IF run[t].pc = "entry" THEN run[t].item_num + 1 ELSE run[t].item_num)]_vars

\* a run at the last entry of a listing of two full pages
C18_Witness ==
    \E t \in DOMAIN tasks :
        /\ Len(Listing(t)) = 2 /\ HasWrapPage(Listing(t))
        /\ WrapPage(Listing(t)) = 3
        /\ AtEntry(t)
        /\ run[t].page = 2 /\ run[t].item = 2 /\ run[t].item_num = 4

-----------------------------------------------------------------------------
(* Polling *)

\* C20: with a connection to the store, the polling handler answers a
\* request for a task id that has a row with 200 and the row's current
\* status and progress, and a request for a task id that has no row with
\* 404 'Task not found'.
C20_PollAnswers ==
    [][polls' # polls /\ polls'.connects /\ Has(polls'.event, "task_id") =>
          LET id       == polls'.event.task_id
              response == polls'.response
          IN  IF id \in DOMAIN tasks
              THEN /\ response.statusCode = 200
                   /\ response.body.task_status = tasks[id].task_status
                   /\ response.body.task_progress = tasks[id].task_progress
              ELSE /\ response.statusCode = 404
                   /\ response.body = "Task not found"]_vars

-----------------------------------------------------------------------------
(* The client's requests *)

\* the responses before the last one received
Earlier(received) == SubSeq(received, 1, Len(received) - 1)

\* C21: a call of web_service_get or web_service_post makes at most 3
\* requests; a response with status 200, 400, 480, 481, 482 or 500 ends it
\* at once, so every response before the last has another status; a
\* response with another status is followed by a new request until 3 have
\* been made; the call returns the last response received, or None when a
\* request raised; and every call returns.
C21_ClientRetries ==
    /\ [](/\ Len(client.received) <= MaxTries
          /\ \A i \in 1..Len(Earlier(client.received)) :
                client.received[i].status_code \notin FinalStatuses
          /\ client.retries = Cardinality({i \in 1..Len(client.received) :
                client.received[i].status_code \notin FinalStatuses})
          /\ client.pc = "request" => client.retries = Len(client.received)
          /\ client.pc = "returned" /\ client.result # None =>
                /\ Len(client.received) >= 1
                /\ client.result = client.received[Len(client.received)]
                /\ \/ client.result.status_code \in FinalStatuses
                   \/ Len(client.received) = MaxTries)
    /\ (client.pc = "request") ~> (client.pc = "returned")

\* a call that returned the third response, all three with status 503
C21_Witness ==
    /\ client.pc = "returned"
    /\ Len(client.received) = 3
    /\ client.result = [status_code |-> 503]
    /\ client.received[1].status_code = 503

-----------------------------------------------------------------------------
(* The end of the walk *)

\* no page after page 1 starts with the first title of page 1
NeverWraps(listing) ==
    \A p \in 2..Len(listing) : ~RepeatsFirstPage(listing, p)

\* C22: the walk goes from page to page without a ceiling.  It ends after
\* the fetch of a page only when the page is not page 1, has a title, and
\* its first title is the first title of page 1, and it fails only when a
\* fetch is answered with a status other than 200; every other page, an
\* empty one included, is stored and the next one fetched.  On a listing
\* where no page repeats page 1 the run so never gets to process an entry
\* and the status stays 'in progress' for as long as the fetches answer 200.
C22_NoCeiling ==
    /\ [][\A t \in DOMAIN tasks :
            LET r == run[t] IN
            /\ r.pc = "parse" /\ run'[t] # r =>
                  IF /\ r.page > 1
                     /\ Len(r.response.titles) > 0
                     /\ Len(Listing(t)[1].titles) > 0
                     /\ r.response.titles[1] = Listing(t)[1].titles[1]
                  THEN run'[t].pc \in {"entry", "finish"}
                  ELSE run'[t].pc = "fetch" /\ run'[t].count = r.count + Len(r.response.titles)
            /\ r.pc = "fetch" /\ run'[t] # r =>
                  \/ run'[t].pc = "parse" /\ run'[t].response.status_code = 200
                  \/ /\ run'[t].pc = "error" /\ run'[t].err = "http"
                     /\ run'[t].response.status_code # 200]_vars
    /\ [](\A t \in DOMAIN tasks :
            NeverWraps(Listing(t)) =>
                /\ ~Processing(t)
                /\ run[t].pc \in {"fetch", "parse"} => Status(t) = "in progress"
                /\ run[t].pc \in {"error", "raised"} =>
                      run[t].err \in {"setup", "store", "http"})

\* a walk past the pages followed one by one, on a listing whose page 1 has
\* entries and whose later pages are empty
C22_Witness ==
    \E t \in DOMAIN tasks :
        /\ NeverWraps(Listing(t))
        /\ Len(Listing(t)[1].titles) > 0
        /\ \A p \in 2..Len(Listing(t)) : Len(Listing(t)[p].titles) = 0
        /\ run[t].pc = "fetch" /\ run[t].page = MaxWalk + 1
        /\ Len(run[t].pages) = MaxWalk
        /\ Status(t) = "in progress"

-----------------------------------------------------------------------------
(* Failure and retry *)

\* the detail result of the product listed under name
DetailOfName(name) ==
    item_scrapper(DetailPage(LinkText(CHOOSE i \in 1..NumTitles : TitleText(i) = name)))

\* the Item has one Size row per size and one Color row per colour of its
\* detail
HasAllRows(id) ==
    LET res == DetailOfName(items[id].item_name) IN
    /\ res # None
    /\ Len(res.colors) = Len(res.photo_links)
    /\ RowsUnder(sizes, id) = SizeRows(id, res)
    /\ RowsUnder(colors, id) = ColorRows(id, res)

\* C23: when the task is 'completed', after whatever runs of it, among
\* them runs that failed between the insert of an Item and the last of its
\* Size and Color inserts and were redelivered, every Item row in the store
\* has all the Size and Color rows of its detail.
C23_ItemsComplete ==
    \A t \in DOMAIN tasks :
        Status(t) = "completed" => \A id \in DOMAIN items : HasAllRows(id)

-----------------------------------------------------------------------------
(* The cap and the progress values *)

\* C24: once the count of processed entries is over the cap no further
\* entry is detail-fetched or checked against the store, whatever the
\* outcome of the entries at and after the cap: the last entry a run looks
\* at is the one that takes the count over 300.
C24_CapAfterEveryEntry ==
    \A t \in DOMAIN tasks :
        run[t].pc \in {"detail", "insert"} => run[t].item_num <= MaxItems + 1

\* the progress values a run over the capped listing can write
CappedProgressTexts ==
    LET n == KeptEntries(CappedListing) IN {ProgressText(a, n) : a \in 0..n}

\* C25: every progress value written in a run, the final one included, has
\* 0 <= processed <= total; the total is fixed when processing starts and is
\* the number of entries stored for pages 1..N-1; so is every value a
\* client can read after the first write.
C25_ProgressBounds ==
    \A t \in DOMAIN tasks :
        LET r == run[t]
            n == KeptEntries(Listing(t))
        IN  /\ \A k \in 1..Len(progressLog[t]) :
                  /\ 0 <= progressLog[t][k][1]
                  /\ progressLog[t][k][1] <= progressLog[t][k][2]
                  /\ progressLog[t][k][2] = n
            /\ Processing(t) => r.count = n /\ r.item_num \in 0..n
            /\ tasks[t].task_progress \in {"not available yet"} \cup CappedProgressTexts

\* a completed run that was stopped by the cap, with 30 writes before the
\* final one
C25_Witness ==
    \E t \in DOMAIN tasks :
        /\ Returned(t)
        /\ run[t].item_num > MaxItems
        /\ run[t].item_num < run[t].count
        /\ Len(progressLog[t]) = (MaxItems \div ProgressEvery) + 1
        /\ tasks[t].task_progress = ProgressText(run[t].item_num, run[t].count)

-----------------------------------------------------------------------------
(* The row of the task *)

\* C26: whenever the stored status is 'completed' the stored progress is the
\* final count and total of the run that completed the task, the last value
\* that run wrote: never a mid-run value, never 'not available yet'.
C26_CompletedWithFinalProgress ==
    \A t \in DOMAIN tasks :
        Status(t) = "completed" =>
            /\ Returned(t)
            /\ tasks[t].task_progress = ProgressText(run[t].item_num, run[t].count)
            /\ Len(progressLog[t]) >= 1
            /\ progressLog[t][Len(progressLog[t])] = <<run[t].item_num, run[t].count>>
            /\ tasks[t].task_progress # "not available yet"
            /\ \A k \in 1..(Len(progressLog[t]) - 1) :
                  tasks[t].task_progress #
                      ProgressText(progressLog[t][k][1], progressLog[t][k][2])

\* a completed task whose run wrote mid-run values before the final one
C26_Witness ==
    \E t \in DOMAIN tasks :
        /\ Status(t) = "completed"
        /\ Len(progressLog[t]) > 1
        /\ tasks[t].task_progress = ProgressText(2 * LongFull + LongRest, 2 * LongFull + LongRest)

\* the invocation for task t is under way without a connection or with a
\* falsy task id
NoRowKnown(t) ==
    /\ run[t].pc \notin {"idle", "returned", "raised"}
    /\ ~run[t].dbConn \/ run[t].taskid = 0

\* C27: a run that fails before the connection is open or before the task
\* id is read, or whose task id is 0, writes nothing to scraping_tasks: no
\* row changes in any of its steps, the row of the task is as the submission
\* left it after the run's first delivery raised, and the error raised is
\* the one that ended the try block.
C27_EarlyFailureWritesNothing ==
    /\ [][\A t \in DOMAIN tasks :
            NoRowKnown(t) /\ run'[t] # run[t] =>
                /\ UNCHANGED tasks
                /\ run[t].pc = "error" => RaisedError(t)' /\ run'[t].err = run[t].err]_vars
    /\ [](\A t \in DOMAIN tasks :
            /\ RaisedError(t) /\ deliveries[t] = 1
            /\ ~run[t].dbConn \/ run[t].taskid = 0
            => /\ Status(t) = "queued"
               /\ tasks[t].task_progress = "not available yet"
               /\ run[t].err \in TryErrors)

\* a run with a connection and the task id 0 raised the error of a page
\* fetch, the row untouched
C27_Witness ==
    \E t \in DOMAIN tasks :
        /\ RaisedError(t) /\ run[t].dbConn /\ run[t].taskid = 0
        /\ run[t].err = "http"
        /\ Status(t) = "queued"

-----------------------------------------------------------------------------
(* Submission *)

\* C28: the submission inserts the row with status 'queued' and progress
\* 'not available yet' before it sends the message: a message exists only
\* for a row that exists and holds the submitted url, the run that receives
\* it reads the id of that row, and a run fetching or processing pages has
\* set the status to 'in progress' before.
C28_RowBeforeMessage ==
    /\ [](\A t \in TaskIds :
            /\ queue[t] # "none" \/ run[t].pc # "idle" =>
                  t \in DOMAIN tasks /\ tasks[t].task_url = submissions[t]
            /\ run[t].pc \notin {"idle", "error", "raised"} =>
                  /\ run[t].taskid = t
                  /\ queue[t] \in {"inflight", "deleted"}
            /\ run[t].pc \in {"fetch", "parse", "entry", "detail", "insert",
                              "itemid", "sizes", "colors", "finish"}
                  => Status(t) = "in progress")
    /\ [][Len(tasks') # Len(tasks) =>
            /\ Len(tasks') = Len(tasks) + 1
            /\ tasks'[Len(tasks')] = [task_url |-> submissions[Len(tasks')],
                                       task_status |-> "queued",
                                       task_progress |-> "not available yet"]
            /\ queue[Len(tasks')] = "none" /\ queue'[Len(tasks')] = "unsent"
            /\ \A t \in DOMAIN tasks : tasks'[t] = tasks[t]]_vars

\* the second task's message is in the queue, its row still as inserted,
\* while the run of the first task is fetching pages
C28_Witness ==
    /\ Len(tasks) = 2
    /\ queue[2] = "visible"
    /\ tasks[2].task_status = "queued"
    /\ run[1].pc = "fetch" /\ tasks[1].task_status = "in progress"

\* C29: every task row leaves the status 'queued', given a queue that
\* delivers every message it accepted; also when send_message fails.
C29_NoQueuedRowWithoutMessage ==
    \A t \in 1..MaxTasks :
        (t \in DOMAIN tasks /\ Status(t) = "queued")
            ~> (t \in DOMAIN tasks /\ Status(t) # "queued")

-----------------------------------------------------------------------------
(* Concurrent runs over the same name *)

\* both runs ended normally, each in its first delivery
BothRunsDone ==
    /\ Len(tasks) = MaxTasks
    /\ \A t \in DOMAIN tasks : Returned(t) /\ deliveries[t] = 1

\* C30: with two runs that process entries of the same name in any
\* interleaving, the Size and Color rows in the store are under the ids of
\* Items, none more often than the Item's detail has it; a run writes such
\* rows only after its own Item insert succeeded, under the id of that
\* insert, and a run that skipped the entry writes none; and once both runs
\* have ended normally every Item has each row of its detail exactly once.
C30_RowsWrittenOnce ==
    /\ []( /\ \A row \in DOMAIN sizes \cup DOMAIN colors : row.itemid \in DOMAIN items
           /\ \A id \in DOMAIN items :
                LET res == DetailOfName(items[id].item_name) IN
                /\ RowsUnder(sizes, id) \sqsubseteq SizeRows(id, res)
                /\ RowsUnder(colors, id) \sqsubseteq ColorRows(id, res)
           /\ \A t \in DOMAIN tasks :
                run[t].pc \in {"itemid", "sizes", "colors"} =>
                    /\ run[t].last_insert_id \in DOMAIN items
                    /\ items[run[t].last_insert_id].item_name = Entry(t).title
                    /\ \A u \in DOMAIN tasks \ {t} :
                          (run[u].pc \in {"itemid", "sizes", "colors"}
                              => run[u].last_insert_id # run[t].last_insert_id)
           /\ BothRunsDone => \A id \in DOMAIN items : HasAllRows(id))
    /\ [][\A t \in DOMAIN tasks :
            LET r == run[t] IN
            /\ r.pc = "insert" /\ run'[t].pc = "itemid" =>
                  /\ CountItems(Entry(t).title) = 0
                  /\ Len(items') = Len(items) + 1
                  /\ items'[Len(items')].item_name = Entry(t).title
                  /\ run'[t].last_insert_id = Len(items')
            /\ r.pc = "insert" /\ items' = items => run'[t].pc # "itemid"
            /\ run'[t] # r /\ <<sizes, colors>>' # <<sizes, colors>> =>
                  /\ r.pc \in {"sizes", "colors"}
                  /\ r.item_id = r.last_insert_id
                  /\ \A row \in DOMAIN sizes' \ DOMAIN sizes : row.itemid = r.item_id
                  /\ \A row \in DOMAIN colors' \ DOMAIN colors : row.itemid = r.item_id]_vars

\* both runs found no Item of the name and went on to the INSERT: one has
\* inserted it and is writing its rows, the other is about to be refused
C30_Witness ==
    /\ Len(tasks) = 2
    /\ run[1].pc = "insert"
    /\ run[2].pc \in {"sizes", "colors"}
    /\ Entry(1).title = Entry(2).title
    /\ items[run[2].item_id].item_name = Entry(1).title

=============================================================================
